---------------------------- MODULE Spec2Model ----------------------------
(***************************************************************************)
(* EduMap dashboard (src/dashboard.py): the data pipeline of one script    *)
(* run -- validity filter, teacher derivations, region filter, KPI sums,   *)
(* the two district tables, the map rows and their severity labels -- and  *)
(* the reruns the two sidebar selectors cause.                             *)
(*                                                                         *)
(* A nullable cell is <<>> (NaN) or <<v>>.  A data frame is a sequence of  *)
(* rows; a row carries its pandas index label in the field "index".        *)
(***************************************************************************)
EXTENDS Integers, Sequences, FiniteSets

VARIABLES raw, df, province, district, district_options, filtered_df,
          kpi, ratio_chart, shortage_chart, map_data, infra_color

vars == <<raw, df, province, district, district_options, filtered_df,
          kpi, ratio_chart, shortage_chart, map_data, infra_color>>

NaN == <<>>

isna(x) == x = NaN

notna(x) == x # NaN

Cell(v) == <<v>>

\* The value of a non-null cell.
Value(x) == x[1]

---------------------------------------------------------------------------
(* Ordering of strings: sorted() on province and district names.           *)

NameOrder ==
    << "Baringo", "Bomet", "Bungoma", "Busia", "Coast", "Embu", "Garissa",
       "Kiambu", "Kilifi", "Kisumu", "Kwale", "Lamu", "Meru", "Nairobi",
       "Nakuru", "Westlands" >>

Rank(s) == CHOOSE i \in 1..Len(NameOrder) : NameOrder[i] = s

RECURSIVE sorted(_)
sorted(S) ==
    IF S = {} THEN <<>>
    ELSE LET m == CHOOSE x \in S : \A y \in S : Rank(x) <= Rank(y)
         IN  <<m>> \o sorted(S \ {m})

\* Series.unique(): the distinct values of a column.
unique(frame, col) == {frame[i][col] : i \in 1..Len(frame)}

RECURSIVE SeqSum(_)
SeqSum(s) == IF s = <<>> THEN 0 ELSE Head(s) + SeqSum(Tail(s))

\* The rows of a frame that satisfy a boolean mask, in frame order.
RECURSIVE Mask(_, _)
Mask(frame, keep) ==
    IF frame = <<>> THEN <<>>
    ELSE (IF keep[1] THEN <<Head(frame)>> ELSE <<>>)
         \o Mask(Tail(frame), Tail(keep))

---------------------------------------------------------------------------
(* Data preprocessing, lines 6-22.                                         *)

teacher_columns ==
    << "GO_KTSC_M", "authorityM", "PTA_BOG_M", "OthersM",
       "GOK_TSC_F", "authorityF", "PTA_BOG_F", "OthersF" >>

PupilsPerTeacher == 40

\* read_csv: every row gets its position as index label.
read_csv(rows) ==
    [i \in 1..Len(rows) |-> [c \in DOMAIN rows[i] \cup {"index"} |->
        IF c = "index" THEN i ELSE rows[i][c]]]

ValidEnrol_NotNullOnly(r) == notna(r.TotalEnrol)

\* df["TotalEnrol"].notna() & (df["TotalEnrol"] > 0)
ValidEnrol(r) == notna(r.TotalEnrol) /\ Value(r.TotalEnrol) > 0

fillna(x, v) == IF isna(x) THEN Cell(v) ELSE x

Male_Teachers(r) ==
    Value(r.GO_KTSC_M) + Value(r.authorityM) + Value(r.PTA_BOG_M) + Value(r.OthersM)

Female_Teachers(r) ==
    Value(r.GOK_TSC_F) + Value(r.authorityF) + Value(r.PTA_BOG_F) + Value(r.OthersF)

\* numpy round: to the nearest integer, a half to the even neighbour.
round(num, den) ==
    LET q == num \div den
        twice == 2 * (num % den)
    IN  IF twice < den THEN q
        ELSE IF twice > den THEN q + 1
        ELSE IF q % 2 = 0 THEN q ELSE q + 1

round_HalfUp(num, den) ==
    LET q == num \div den
    IN  IF 2 * (num % den) < den THEN q ELSE q + 1

Teachers_Required_HalfUp(r) == round_HalfUp(Value(r.TotalEnrol), PupilsPerTeacher)

Teachers_Required(r) == round(Value(r.TotalEnrol), PupilsPerTeacher)

Teacher_Shortage_NoClip(required, total) == required - total

\* (required - total).clip(lower=0)
Teacher_Shortage(required, total) ==
    IF required - total < 0 THEN 0 ELSE required - total

Toilet_Deficit(x) == IF isna(x) \/ Value(x) <= 0 THEN 1 ELSE 0

\* One row after lines 14-22.
Derive(r) ==
    LET filled == [c \in DOMAIN r |->
                     IF \E k \in 1..Len(teacher_columns) : teacher_columns[k] = c
                     THEN fillna(r[c], 0) ELSE r[c]]
        male == Male_Teachers(filled)
        female == Female_Teachers(filled)
        total == male + female
        required == Teachers_Required(filled)
        new == [ Male_Teachers |-> male,
                 Female_Teachers |-> female,
                 Total_Teachers_Recalc |-> total,
                 Teachers_Required |-> required,
                 Teacher_Shortage |-> Teacher_Shortage(required, total),
                 No_Classrooms |-> Value(fillna(r.No_Classrm, 0)),
                 Toilet_Deficit |-> Toilet_Deficit(r.TotalToile) ]
    IN  [c \in DOMAIN filled \cup DOMAIN new |->
            IF c \in DOMAIN new THEN new[c] ELSE filled[c]]

Preprocess(rows) ==
    LET loaded == read_csv(rows)
        valid == Mask(loaded, [i \in 1..Len(loaded) |-> ValidEnrol(loaded[i])])
    IN  [i \in 1..Len(valid) |-> Derive(valid[i])]

---------------------------------------------------------------------------
(* Sidebar selectors, lines 30-37.                                         *)

province_options(frame) == <<"All">> \o sorted(unique(frame, "Province"))

DistrictOptions(frame, p) ==
    IF p # "All"
    THEN sorted(unique(Mask(frame, [i \in 1..Len(frame) |-> frame[i].Province = p]),
                       "District"))
    ELSE sorted(unique(frame, "District"))

Elements(s) == {s[i] : i \in 1..Len(s)}

selectbox_KeepValue(old_options, new_options, value) == value

\* st.selectbox without a key: the widget is identified by its parameters, so
\* it keeps its value while the options stay the same and otherwise is a new
\* widget showing its first option, "All".
selectbox(old_options, new_options, value) ==
    IF new_options = old_options THEN value ELSE "All"

---------------------------------------------------------------------------
(* Region filter, lines 55-59.                                             *)

RegionFilter_Elif(frame, p, d) ==
    IF p # "All"
    THEN Mask(frame, [i \in 1..Len(frame) |-> frame[i].Province = p])
    ELSE IF d # "All"
    THEN Mask(frame, [i \in 1..Len(frame) |-> frame[i].District = d])
    ELSE frame

RegionFilter_DistrictOfAll(frame, p, d) ==
    IF d # "All"
    THEN Mask(frame, [i \in 1..Len(frame) |-> frame[i].District = d])
    ELSE IF p # "All"
    THEN Mask(frame, [i \in 1..Len(frame) |-> frame[i].Province = p])
    ELSE frame

RegionFilter(frame, p, d) ==
    LET byProvince ==
            IF p # "All"
            THEN Mask(frame, [i \in 1..Len(frame) |-> frame[i].Province = p])
            ELSE frame
    IN  IF d # "All"
        THEN Mask(byProvince,
                  [i \in 1..Len(byProvince) |-> byProvince[i].District = d])
        ELSE byProvince

---------------------------------------------------------------------------
(* KPIs and district tables, lines 63-77.                                  *)

Column(frame, col) == [i \in 1..Len(frame) |-> frame[i][col]]

KPIs(frame) ==
    [ Total_Enrollment |->
          SeqSum([i \in 1..Len(frame) |-> Value(frame[i].TotalEnrol)]),
      Total_Teachers |-> SeqSum(Column(frame, "Total_Teachers_Recalc")),
      Total_Teacher_Shortage |-> SeqSum(Column(frame, "Teacher_Shortage")) ]

\* groupby("District"): one group per distinct district, in sorted key order.
Group(frame, key) ==
    Mask(frame, [i \in 1..Len(frame) |-> frame[i].District = key])

MeanOf_CountNulls(cells) ==
    LET present == Mask(cells, [i \in 1..Len(cells) |-> notna(cells[i])])
    IN  [ sum |-> SeqSum([i \in 1..Len(present) |-> Value(present[i])]),
          count |-> Len(cells) ]

\* Series.mean() skips nulls: the mean is kept as the pair sum / count, and
\* is NaN when count = 0.
MeanOf(cells) ==
    LET present == Mask(cells, [i \in 1..Len(cells) |-> notna(cells[i])])
    IN  [ sum |-> SeqSum([i \in 1..Len(present) |-> Value(present[i])]),
          count |-> Len(present) ]

GroupMean(frame) ==
    LET keys == sorted(unique(frame, "District"))
    IN  [k \in 1..Len(keys) |->
            [ District |-> keys[k],
              PupilTeach |-> MeanOf(Column(Group(frame, keys[k]), "PupilTeach")) ]]

GroupSum(frame) ==
    LET keys == sorted(unique(frame, "District"))
    IN  [k \in 1..Len(keys) |->
            [ District |-> keys[k],
              Teacher_Shortage |->
                  SeqSum(Column(Group(frame, keys[k]), "Teacher_Shortage")) ]]

TopN == 10

head(s, n) == IF Len(s) <= n THEN s ELSE SubSeq(s, 1, n)

\* sort_values(ascending=False) with the default, unstable sort: every
\* ordering of the rows by non-increasing shortage is a possible result.
RECURSIVE sort_values_descending(_)
sort_values_descending(rows) ==
    IF rows = {} THEN {<<>>}
    ELSE LET top == {r \in rows :
                        \A q \in rows : q.Teacher_Shortage <= r.Teacher_Shortage}
         IN  UNION {{<<r>> \o rest : rest \in sort_values_descending(rows \ {r})}
                    : r \in top}

TopDistricts_Unsorted(chart) == {head(chart, TopN)}

\* The possible values of the frame that line 76 plots.
TopDistricts(chart) ==
    {head(s, TopN) : s \in sort_values_descending(Elements(chart))}

---------------------------------------------------------------------------
(* Map rows, lines 83-93 and 114.                                          *)

\* The nullable columns among the seven that line 83 selects; the derived
\* Teacher_Shortage, Total_Teachers_Recalc and No_Classrooms are never null.
map_columns == <<"Latitude", "Longitude", "Name_of_Sc", "TotalToile">>

dropna_CoordinatesUnchecked(r) ==
    \A k \in 1..Len(map_columns) :
        map_columns[k] \in {"Latitude", "Longitude"} \/ notna(r[map_columns[k]])

\* dropna() keeps a row when none of its selected columns is null.
dropna(r) == \A k \in 1..Len(map_columns) : notna(r[map_columns[k]])

bins == <<-1, 0, 19, 39>>

\* The labels of line 92, without their colour marks.
labels == <<"No Shortage", "Low", "Moderate", "High">>

cut_LeftClosed(x) ==
    IF x < bins[1] THEN NaN
    ELSE Cell(labels[CHOOSE k \in 1..Len(bins) :
                        bins[k] <= x /\ (k = Len(bins) \/ x < bins[k + 1])])

\* pd.cut with right-closed bins (-1,0], (0,19], (19,39], (39,inf).
cut(x) ==
    IF x <= bins[1] THEN NaN
    ELSE Cell(labels[CHOOSE k \in 1..Len(bins) :
                        bins[k] < x /\ (k = Len(bins) \/ x <= bins[k + 1])])

MapData(frame) ==
    LET kept == Mask(frame, [i \in 1..Len(frame) |-> dropna(frame[i])])
    IN  [i \in 1..Len(kept) |->
            [ index |-> kept[i].index,
              Latitude |-> kept[i].Latitude,
              Longitude |-> kept[i].Longitude,
              Name_of_Sc |-> kept[i].Name_of_Sc,
              Teacher_Shortage |-> kept[i].Teacher_Shortage,
              Total_Teachers_Recalc |-> kept[i].Total_Teachers_Recalc,
              No_Classrooms |-> kept[i].No_Classrooms,
              TotalToile |-> kept[i].TotalToile,
              Shortage_Level |-> cut(kept[i].Teacher_Shortage) ]]

InfraColor(points) ==
    [i \in 1..Len(points) |->
        [ index |-> points[i].index,
          color |-> points[i].No_Classrooms + Value(points[i].TotalToile) ]]

---------------------------------------------------------------------------
(* One run of the script with the selectors at p and d.                    *)

\* Lines 30-130 on the derived frame.
Views(frame, p, d) ==
    LET filtered == RegionFilter(frame, p, d)
        points == MapData(filtered)
    IN  { [ df |-> frame,
            district_options |-> DistrictOptions(frame, p),
            filtered_df |-> filtered,
            kpi |-> KPIs(filtered),
            ratio_chart |-> GroupMean(filtered),
            shortage_chart |-> top,
            map_data |-> points,
            infra_color |-> InfraColor(points) ]
          : top \in TopDistricts(GroupSum(filtered)) }

Script(rows, p, d) == Views(Preprocess(rows), p, d)

Rerun(p, d) ==
    /\ province' = p
    /\ district' = d
    /\ \E out \in Script(raw, p, d) :
        /\ df' = out.df
        /\ district_options' = out.district_options
        /\ filtered_df' = out.filtered_df
        /\ kpi' = out.kpi
        /\ ratio_chart' = out.ratio_chart
        /\ shortage_chart' = out.shortage_chart
        /\ map_data' = out.map_data
        /\ infra_color' = out.infra_color
    /\ UNCHANGED raw

\* The first run: both selectors show their first option.
FirstRun(rows) ==
    /\ raw = rows
    /\ province = "All"
    /\ district = "All"
    /\ \E out \in Script(rows, "All", "All") :
        /\ df = out.df
        /\ district_options = out.district_options
        /\ filtered_df = out.filtered_df
        /\ kpi = out.kpi
        /\ ratio_chart = out.ratio_chart
        /\ shortage_chart = out.shortage_chart
        /\ map_data = out.map_data
        /\ infra_color = out.infra_color

SelectProvince ==
    \E p \in Elements(province_options(df)) \ {province} :
        Rerun(p, selectbox(district_options,
                           DistrictOptions(Preprocess(raw), p), district))

SelectDistrict ==
    \E d \in (Elements(district_options) \cup {"All"}) \ {district} :
        Rerun(province, d)

\* A rerun with no selector changed.
Refresh == Rerun(province, district)

Next == SelectProvince \/ SelectDistrict \/ Refresh

---------------------------------------------------------------------------
(* The datasets the runs start from: the rows of the CSV file.             *)

School(region, enrol, teachers, ratio, lat, lon, name, classrooms, toilets) ==
    [ Province |-> region[1], District |-> region[2], TotalEnrol |-> enrol,
      GO_KTSC_M |-> teachers[1], authorityM |-> teachers[2],
      PTA_BOG_M |-> teachers[3], OthersM |-> teachers[4],
      GOK_TSC_F |-> teachers[5], authorityF |-> teachers[6],
      PTA_BOG_F |-> teachers[7], OthersF |-> teachers[8],
      PupilTeach |-> ratio, Latitude |-> lat, Longitude |-> lon,
      Name_of_Sc |-> name, No_Classrm |-> classrooms, TotalToile |-> toilets ]

\* Teacher columns summing to 8, 5, 1, and with no entry at all.
Staff8 == <<Cell(3), NaN, Cell(1), Cell(0), Cell(2), NaN, Cell(2), NaN>>

Staff5 == <<Cell(2), Cell(0), NaN, NaN, Cell(3), NaN, NaN, Cell(0)>>

Staff1 == <<NaN, NaN, NaN, NaN, Cell(1), NaN, NaN, NaN>>

StaffNone == <<NaN, NaN, NaN, NaN, NaN, NaN, NaN, NaN>>

Regions == {<<"Coast", "Kilifi">>, <<"Coast", "Kwale">>, <<"Nairobi", "Kilifi">>}

\* Rows of every data-quality kind: complete, invalid enrollment (null, zero,
\* negative), no teacher data, and one of latitude, longitude, toilet count
\* or school name missing.
Schools ==
    UNION {
      { School(g, Cell(400), Staff8, Cell(50), Cell(-4), Cell(39), Cell("school"), Cell(8), Cell(5)),
        School(g, NaN, Staff8, Cell(50), Cell(-4), Cell(39), Cell("school"), Cell(8), Cell(5)),
        School(g, Cell(0), Staff8, Cell(50), Cell(-4), Cell(39), Cell("school"), Cell(8), Cell(5)),
        School(g, Cell(-40), Staff5, Cell(20), Cell(-4), Cell(39), Cell("school"), Cell(8), Cell(5)),
        School(g, Cell(800), StaffNone, NaN, Cell(-4), Cell(39), Cell("school"), NaN, Cell(0)),
        School(g, Cell(100), Staff5, Cell(20), NaN, Cell(39), Cell("school"), Cell(8), Cell(5)),
        School(g, Cell(1600), Staff1, Cell(50), Cell(-4), NaN, Cell("school"), Cell(8), Cell(5)),
        School(g, Cell(400), Staff5, Cell(20), Cell(-4), Cell(39), Cell("school"), Cell(8), NaN),
        School(g, Cell(100), Staff1, Cell(50), Cell(-4), Cell(39), NaN, Cell(8), Cell(5)) }
      : g \in Regions }

MaxRecords == 2

Datasets(rows) == UNION {[1..n -> rows] : n \in 0..MaxRecords}

Init == \E rows \in Datasets(Schools) : FirstRun(rows)

Spec == Init /\ [][Next]_vars

\* Complete rows of one district that differ in enrollment, staffing and ratio.
StaffingSchools ==
    { School(<<"Coast", "Kilifi">>, Cell(e), t, Cell(r),
             Cell(-4), Cell(39), Cell("school"), Cell(8), Cell(5))
      : e \in {100, 400}, t \in {StaffNone, Staff1, Staff5, Staff8}, r \in {20, 50} }
    \cup
    { School(<<"Coast", "Kilifi">>, Cell(e), t, Cell(50),
             Cell(-4), Cell(39), Cell("school"), Cell(8), Cell(5))
      : e \in {60, 800, 1600}, t \in {StaffNone, Staff1, Staff5, Staff8} }

InitStaffing == \E rows \in Datasets(StaffingSchools) : FirstRun(rows)

SpecStaffing == InitStaffing /\ [][Next]_vars

\* Many districts: one unstaffed school in each of n districts, no two with
\* the same shortage, and one more school in any of them.
NDist == 11

DistrictNames ==
    << "Baringo", "Bomet", "Bungoma", "Busia", "Embu", "Garissa", "Kiambu",
       "Kilifi", "Kisumu", "Kwale", "Lamu", "Meru", "Nakuru", "Westlands" >>

DistrictSchool(i, enrol) ==
    School(<<IF i % 2 = 1 THEN "Coast" ELSE "Nairobi", DistrictNames[i]>>,
           Cell(enrol), StaffNone, Cell(50),
           Cell(-4), Cell(39), Cell("school"), Cell(8), Cell(5))

ManyDistricts ==
    UNION {
      {[i \in 1..n |-> DistrictSchool(i, PupilsPerTeacher * (((i * 7) % 13) + 1))]}
      \cup
      { [i \in 1..(n + 1) |->
            IF i <= n
            THEN DistrictSchool(i, PupilsPerTeacher * (((i * 7) % 13) + 1))
            ELSE DistrictSchool(j, e)]
        : j \in 1..n, e \in {40, 80, 200} }
      : n \in (NDist - 2)..NDist }

InitTop == \E rows \in ManyDistricts : FirstRun(rows)

SpecTop == InitTop /\ [][Next]_vars

---------------------------------------------------------------------------
(* What the outputs are to be, stated on the rows of the CSV file.         *)

\* The rows with a valid enrollment.
Admitted ==
    {i \in 1..Len(raw) : raw[i].TotalEnrol # NaN /\ raw[i].TotalEnrol[1] > 0}

Matches(i, p, d) ==
    /\ p = "All" \/ raw[i].Province = p
    /\ d = "All" \/ raw[i].District = d

Matching(p, d) == {i \in Admitted : Matches(i, p, d)}

\* The rows the current selection asks for.
Selected == Matching(province, district)

RECURSIVE Total(_, _)
Total(f, S) ==
    IF S = {} THEN 0
    ELSE LET x == CHOOSE y \in S : TRUE IN f[x] + Total(f, S \ {x})

CountOf(cell) == IF cell = NaN THEN 0 ELSE cell[1]

MaleCount(i) ==
    CountOf(raw[i].GO_KTSC_M) + CountOf(raw[i].authorityM)
    + CountOf(raw[i].PTA_BOG_M) + CountOf(raw[i].OthersM)

FemaleCount(i) ==
    CountOf(raw[i].GOK_TSC_F) + CountOf(raw[i].authorityF)
    + CountOf(raw[i].PTA_BOG_F) + CountOf(raw[i].OthersF)

Enrolment == [i \in 1..Len(raw) |-> CountOf(raw[i].TotalEnrol)]

StaffCount == [i \in 1..Len(raw) |-> MaleCount(i) + FemaleCount(i)]

Indexes(frame) == {frame[k].index : k \in 1..Len(frame)}

Row(frame, i) == frame[CHOOSE k \in 1..Len(frame) : frame[k].index = i]

\* The shortage the derived frame holds for each row of the file.
Shortage ==
    [i \in 1..Len(raw) |->
        IF i \in Indexes(df) THEN Row(df, i).Teacher_Shortage ELSE 0]

Ratio == [i \in 1..Len(raw) |-> CountOf(raw[i].PupilTeach)]

DistrictsOf(S) == {raw[i].District : i \in S}

InDistrict(S, name) == {i \in S : raw[i].District = name}

KpiIs(S) ==
    /\ kpi.Total_Enrollment = Total(Enrolment, S)
    /\ kpi.Total_Teachers = Total(StaffCount, S)
    /\ kpi.Total_Teacher_Shortage = Total(Shortage, S)

\* The ratio table has one row per district of S, holding the mean ratio of
\* the district's rows that have one.
RatioTableIs(S) ==
    /\ Len(ratio_chart) = Cardinality(DistrictsOf(S))
    /\ {ratio_chart[k].District : k \in 1..Len(ratio_chart)} = DistrictsOf(S)
    /\ \A k \in 1..Len(ratio_chart) :
        LET known == {i \in InDistrict(S, ratio_chart[k].District) :
                         raw[i].PupilTeach # NaN}
        IN  /\ ratio_chart[k].PupilTeach.count = Cardinality(known)
            /\ ratio_chart[k].PupilTeach.sum = Total(Ratio, known)

Listed == {shortage_chart[k].District : k \in 1..Len(shortage_chart)}

\* The shortage table holds the min(TopN, districts of S) districts of S of
\* largest shortage sum, largest first.
ShortageTableIs(S) ==
    /\ Listed \subseteq DistrictsOf(S)
    /\ Cardinality(Listed) = Len(shortage_chart)
    /\ \A k \in 1..Len(shortage_chart) :
        shortage_chart[k].Teacher_Shortage =
            Total(Shortage, InDistrict(S, shortage_chart[k].District))
    /\ Len(shortage_chart) =
        IF Cardinality(DistrictsOf(S)) < TopN
        THEN Cardinality(DistrictsOf(S)) ELSE TopN
    /\ \A k \in 1..(Len(shortage_chart) - 1) :
        shortage_chart[k].Teacher_Shortage >= shortage_chart[k + 1].Teacher_Shortage
    /\ \A name \in DistrictsOf(S) \ Listed : \A k \in 1..Len(shortage_chart) :
        Total(Shortage, InDistrict(S, name)) <= shortage_chart[k].Teacher_Shortage

HasCoordinates(i) == raw[i].Latitude # NaN /\ raw[i].Longitude # NaN

---------------------------------------------------------------------------
(* C1: a row whose enrollment is null or <= 0 appears in no output: it is   *)
(* in no frame and in neither map point set, the three KPI totals and the  *)
(* groups of both district tables are those of the valid selected rows     *)
(* alone, and the selector options are the provinces and districts of      *)
(* valid rows alone.                                                       *)
C1_InvalidEnrollmentExcluded ==
    /\ \A i \in (1..Len(raw)) \ Admitted :
        /\ i \notin Indexes(df)
        /\ i \notin Indexes(filtered_df)
        /\ i \notin Indexes(map_data)
        /\ i \notin Indexes(infra_color)
    /\ KpiIs(Selected)
    /\ {ratio_chart[k].District : k \in 1..Len(ratio_chart)} = DistrictsOf(Selected)
    /\ Listed \subseteq DistrictsOf(Selected)
    /\ \A k \in 1..Len(shortage_chart) :
        shortage_chart[k].Teacher_Shortage =
            Total(Shortage, InDistrict(Selected, shortage_chart[k].District))
    /\ Elements(province_options(df)) = {"All"} \cup {raw[i].Province : i \in Admitted}
    /\ Elements(district_options) \subseteq DistrictsOf(Admitted)

\* A zero-enrollment row with coordinates and teacher data, in a province no
\* valid row is in, while a province is selected.
C1_Witness ==
    /\ province # "All"
    /\ \E i \in 1..Len(raw) :
        /\ raw[i].TotalEnrol = Cell(0)
        /\ HasCoordinates(i)
        /\ StaffCount[i] > 0
        /\ raw[i].Province \notin {raw[j].Province : j \in Admitted}

(* C2: for every admitted row, with null teacher counts taken as 0, the     *)
(* total teacher count is male total + female total and the shortage is    *)
(* max(0, required - total), never negative; with all eight counts null    *)
(* the total is 0 and the shortage equals the teachers required.           *)
C2_TeacherTotalsAndShortage ==
    \A k \in 1..Len(df) :
        LET r == df[k]
            i == r.index
            gap == r.Teachers_Required - (MaleCount(i) + FemaleCount(i))
        IN  /\ r.Male_Teachers = MaleCount(i)
            /\ r.Female_Teachers = FemaleCount(i)
            /\ r.Total_Teachers_Recalc = r.Male_Teachers + r.Female_Teachers
            /\ r.Teacher_Shortage >= 0
            /\ r.Teacher_Shortage = (IF gap > 0 THEN gap ELSE 0)
            /\ (\A c \in 1..Len(teacher_columns) : raw[i][teacher_columns[c]] = NaN)
                => /\ r.Total_Teachers_Recalc = 0
                   /\ r.Teacher_Shortage = r.Teachers_Required

\* One row with no teacher data and a positive shortage beside one with more
\* teachers than required.
C2_Witness ==
    /\ \E k \in 1..Len(df) :
        /\ \A c \in 1..Len(teacher_columns) : raw[df[k].index][teacher_columns[c]] = NaN
        /\ df[k].Teacher_Shortage = df[k].Teachers_Required
        /\ df[k].Teacher_Shortage > 0
    /\ \E k \in 1..Len(df) :
        /\ df[k].Total_Teachers_Recalc > df[k].Teachers_Required
        /\ df[k].Teacher_Shortage = 0

\* The two schools of the scenario, alone in the file, with selectors All/All.
Scenario ==
    /\ Len(raw) = 2
    /\ raw[1].TotalEnrol = Cell(400) /\ StaffCount[1] = 8 /\ raw[1].PupilTeach = Cell(50)
    /\ raw[2].TotalEnrol = Cell(100) /\ StaffCount[2] = 5 /\ raw[2].PupilTeach = Cell(20)
    /\ raw[1].District = raw[2].District
    /\ province = "All" /\ district = "All"

ScenarioResult(required) ==
    /\ Column(df, "Teachers_Required") = required
    /\ Column(df, "Teacher_Shortage") = <<2, 0>>
    /\ kpi.Total_Teacher_Shortage = 2
    /\ Len(ratio_chart) = 1
    /\ ratio_chart[1].District = raw[1].District
    /\ ratio_chart[1].PupilTeach.count = 2
    /\ ratio_chart[1].PupilTeach.sum = 35 * ratio_chart[1].PupilTeach.count

(* C3 as stated: in the scenario teachers required are 10 and 3 (100/40 =  *)
(* 2.5 giving 3), shortages 2 and 0, KPI total shortage 2, mean ratio 35.  *)
C3_ScenarioHalfUp == Scenario => ScenarioResult(<<10, 3>>)

(* C3 amended: in the scenario teachers required are 10 and 2 (100/40 =    *)
(* 2.5 rounds to the even neighbour 2), shortages 2 and 0, KPI total       *)
(* shortage 2, and the district's mean ratio 35.                           *)
C3_ScenarioHalfEven == Scenario => ScenarioResult(<<10, 2>>)

C3_Witness == Scenario /\ Len(df) = 2 /\ df[2].Teachers_Required = 2

Bucket(s) ==
    IF s = 0 THEN "No Shortage"
    ELSE IF 1 <= s /\ s <= 19 THEN "Low"
    ELSE IF 20 <= s /\ s <= 39 THEN "Moderate"
    ELSE "High"

(* C4: every mapped row has a shortage s >= 0 and exactly the one label of *)
(* its range: 0 No Shortage, 1..19 Low, 20..39 Moderate, 40 and more High. *)
C4_SeverityBuckets ==
    \A k \in 1..Len(map_data) :
        /\ map_data[k].Teacher_Shortage >= 0
        /\ map_data[k].Shortage_Level = Cell(Bucket(map_data[k].Teacher_Shortage))

\* Mapped rows on both sides of a boundary: 19 Low and 20 Moderate.
C4_Witness ==
    /\ \E k \in 1..Len(map_data) :
        map_data[k].Teacher_Shortage = 19 /\ map_data[k].Shortage_Level = Cell("Low")
    /\ \E k \in 1..Len(map_data) :
        map_data[k].Teacher_Shortage = 20 /\ map_data[k].Shortage_Level = Cell("Moderate")

(* C5: a selected row with null latitude or null longitude is in neither   *)
(* map point set, so neither set has more members than the filtered frame, *)
(* yet the row is in the filtered frame, counts in the three KPI totals    *)
(* and in its district's group of both district tables.                    *)
C5_MissingCoordinatesOffMapOnly ==
    /\ Len(map_data) <= Len(filtered_df)
    /\ Len(infra_color) <= Len(filtered_df)
    /\ KpiIs(Selected)
    /\ \A i \in Selected :
        ~HasCoordinates(i) =>
            /\ i \notin Indexes(map_data)
            /\ i \notin Indexes(infra_color)
            /\ i \in Indexes(filtered_df)
            /\ \E k \in 1..Len(ratio_chart) :
                LET known == {j \in InDistrict(Selected, raw[i].District) :
                                 raw[j].PupilTeach # NaN}
                IN  /\ ratio_chart[k].District = raw[i].District
                    /\ ratio_chart[k].PupilTeach.count = Cardinality(known)
                    /\ ratio_chart[k].PupilTeach.sum = Total(Ratio, known)
            /\ \E k \in 1..Len(shortage_chart) :
                /\ shortage_chart[k].District = raw[i].District
                /\ shortage_chart[k].Teacher_Shortage =
                       Total(Shortage, InDistrict(Selected, raw[i].District))

\* A selected row without latitude, shortage 39, beside a mapped row of the
\* same district, with a province selected.
C5_Witness ==
    /\ province # "All"
    /\ Len(map_data) = 1
    /\ \E i \in Selected :
        /\ raw[i].Longitude = NaN
        /\ Shortage[i] = 39
        /\ kpi.Total_Teacher_Shortage > 39
        /\ Row(filtered_df, map_data[1].index).District = raw[i].District

\* Selector values in and out of the data of Spec.
ProvinceValues == {"All", "Coast", "Nairobi", "Meru"}

DistrictValues == {"All", "Kilifi", "Kwale", "Lamu"}

EmptyViews(out) ==
    /\ out.filtered_df = <<>>
    /\ out.kpi = [Total_Enrollment |-> 0, Total_Teachers |-> 0,
                  Total_Teacher_Shortage |-> 0]
    /\ out.ratio_chart = <<>>
    /\ out.shortage_chart = <<>>
    /\ out.map_data = <<>>
    /\ out.infra_color = <<>>

(* C6: the filtered frame holds exactly the valid rows that match the      *)
(* province selector and the district selector, "All" matching every row;  *)
(* for any selector values, in the data or not, that no valid row matches  *)
(* the run yields an empty frame, KPI totals 0 and empty tables and maps.  *)
C6_FilterIsConjunction ==
    /\ Indexes(filtered_df) = Selected
    /\ Len(filtered_df) = Cardinality(Selected)
    /\ \A p \in ProvinceValues, d \in DistrictValues :
        /\ Indexes(RegionFilter(df, p, d)) = Matching(p, d)
        /\ Matching(p, d) = {} =>
            /\ Views(df, p, d) # {}
            /\ \A out \in Views(df, p, d) : EmptyViews(out)
    /\ Selected = {} =>
        EmptyViews([filtered_df |-> filtered_df, kpi |-> kpi,
                    ratio_chart |-> ratio_chart, shortage_chart |-> shortage_chart,
                    map_data |-> map_data, infra_color |-> infra_color])

\* Both selectors set with rows left, while another province and district,
\* each with valid rows, have no row in common.
C6_Witness ==
    /\ province # "All"
    /\ district # "All"
    /\ Selected # {}
    /\ \E p \in ProvinceValues \ {"All"}, d \in DistrictValues \ {"All"} :
        /\ Matching(p, "All") # {}
        /\ Matching("All", d) # {}
        /\ Matching(p, d) = {}

(* C7: the shortage table has one row per listed district with the sum of  *)
(* the shortages of that district's filtered rows, min(10, districts of    *)
(* the filtered frame) rows, in non-increasing order of the sum, and no    *)
(* district left out has a larger sum than a district listed.              *)
C7_TopTenByShortage ==
    /\ ShortageTableIs(Indexes(filtered_df))
    /\ Indexes(filtered_df) = Selected

\* More than ten districts, and the district left out ties with the last one
\* listed.
C7_Witness ==
    /\ Cardinality(DistrictsOf(Selected)) > TopN
    /\ Len(shortage_chart) = TopN
    /\ \E name \in DistrictsOf(Selected) \ Listed :
        Total(Shortage, InDistrict(Selected, name)) =
            shortage_chart[TopN].Teacher_Shortage

(* C8: the district options are exactly the distinct districts of valid    *)
(* rows of the selected province (of all valid rows when it is "All"), in  *)
(* sorted order, and the district selector shows "All" or one of them.     *)
C8_DistrictOptionsFollowProvince ==
    /\ Elements(district_options) = DistrictsOf(Matching(province, "All"))
    /\ \A k \in 1..(Len(district_options) - 1) :
        Rank(district_options[k]) < Rank(district_options[k + 1])
    /\ district \in {"All"} \cup Elements(district_options)
    /\ province \in {"All"} \cup {raw[i].Province : i \in Admitted}

\* A province is selected whose options leave out a district of the data, and
\* the district selector shows one of the options.
C8_Witness ==
    /\ province # "All"
    /\ district # "All"
    /\ district \in Elements(district_options)
    /\ DistrictsOf(Admitted) \ Elements(district_options) # {}

\* The rows line 83 keeps: no null among coordinates, name and toilet count.
Mappable(i) ==
    /\ HasCoordinates(i)
    /\ raw[i].Name_of_Sc # NaN
    /\ raw[i].TotalToile # NaN

OutputsOfSelection ==
    /\ Indexes(df) = Admitted
    /\ Len(df) = Cardinality(Admitted)
    /\ Indexes(filtered_df) = Selected
    /\ Len(filtered_df) = Cardinality(Selected)
    /\ \A k \in 1..Len(filtered_df) : filtered_df[k] = Row(df, filtered_df[k].index)
    /\ KpiIs(Selected)
    /\ RatioTableIs(Selected)
    /\ ShortageTableIs(Selected)
    /\ Indexes(map_data) = {i \in Selected : Mappable(i)}
    /\ Len(map_data) = Cardinality(Indexes(map_data))
    /\ \A k \in 1..Len(map_data) :
        /\ map_data[k].Teacher_Shortage = Shortage[map_data[k].index]
        /\ map_data[k].Shortage_Level = Cell(Bucket(map_data[k].Teacher_Shortage))
    /\ Len(infra_color) = Len(map_data)
    /\ \A k \in 1..Len(infra_color) :
        /\ infra_color[k].index = map_data[k].index
        /\ infra_color[k].color =
               CountOf(raw[infra_color[k].index].No_Classrm)
               + CountOf(raw[infra_color[k].index].TotalToile)

(* C9: after any sequence of selection changes every output is what the    *)
(* rows of the file and the current selection determine, whatever was      *)
(* selected before, and no run changes the rows of the file or the derived *)
(* frame.                                                                  *)
C9_OutputsDependOnSelectionOnly ==
    /\ []OutputsOfSelection
    /\ [][raw' = raw /\ df' = df]_vars

\* Both selectors set, part of the derived frame filtered out, a row mapped.
C9_Witness ==
    /\ province # "All"
    /\ district # "All"
    /\ Len(filtered_df) < Len(df)
    /\ Len(map_data) > 0

(* C10: every filtered row with latitude and longitude is in both map      *)
(* point sets, also one with a null toilet count or a null school name.    *)
C10_CoordinatesSufficeForMap ==
    \A i \in Selected :
        HasCoordinates(i) =>
            i \in Indexes(map_data) /\ i \in Indexes(infra_color)

=============================================================================
